---------------------------- MODULE Spec2Model ----------------------------
(***************************************************************************)
(* Model of the resource registry of an iroh-willow session                *)
(* (iroh-willow/src/session/resource.rs): the generic ResourceMap<H, R>,   *)
(* the per-kind ResourceMaps, and the tasks that look resources up; of the *)
(* session around it (iroh-willow/src/session.rs): the handshake and the   *)
(* intersection of areas of interest; of the no-op authenticator           *)
(* (iroh-base/src/auth.rs); and of the progress state of a blob transfer   *)
(* (iroh-bytes/src/get/progress.rs).                                       *)
(***************************************************************************)
EXTENDS Integers, Sequences, FiniteSets, TLC

(***************************************************************************)
(* Bounds of the model.                                                    *)
(***************************************************************************)
\* binds performed over all tables (next_handle is a u64 in the source)
MaxBinds == 2
\* waker registrations performed over all tables
MaxRegs == 3
\* DownloadProgress events applied to one transfer
MaxEvents == 4

\* the tasks that look resources up, each with its own waker
Tasks == {"t1", "t2", "t3"}
\* the resource values of one kind, compared with ==
Values == {"a", "b"}
Handles == 0 .. (MaxBinds - 1)

\* "no value" / "no handle" markers of Option<..> results
NoValue == "none"
NoHandle == -1

Scopes == {"ours", "theirs"}
Kinds == {"capabilities", "areas_of_interest", "static_tokens"}
HandleTypes == {"AreaOfInterest", "Capability", "StaticToken", "Intersection"}

VARIABLES
    resources,   \* [scope -> ResourceMaps]
    tasks,       \* [task -> state of its lookup]
    ret,         \* what the last non-suspending call returned
    panicked,    \* a call hit unimplemented!()
    issued,      \* history: handles returned by calls that created a binding
    creator,     \* history: which call created each binding
    registered,  \* history: wakers registered for a handle while it was unbound
    woken,       \* history: wake() calls made for a handle, in order
    nregs,       \* history: number of waker registrations so far
    session,     \* the handshake of the session that owns the tables
    intersections, \* the AreaOfInterestIntersections produced so far
    auth,        \* the last call made to the authenticator and its result
    transfer,    \* the TransferState of one blob transfer
    event,       \* the last DownloadProgress event applied to transfer
    nevents      \* history: number of events applied so far

vars == <<resources, tasks, ret, panicked, issued, creator, registered, woken, nregs,
          session, intersections, auth, transfer, event, nevents>>

\* the state of the resource registry and of its callers
registryVars == <<resources, tasks, ret, panicked, issued, creator, registered, woken, nregs>>
\* the state of the session around the registry
sessionVars == <<session, intersections>>
\* the state outside the session
outsideVars == <<auth, transfer, event, nevents>>

(***************************************************************************)
(* HashMap<H, Resource<R>>: a sequence of entries in iteration order.      *)
(***************************************************************************)
Resource_new(value) == [value |-> value]

MapKeys(map) == {map[i].handle : i \in 1 .. Len(map)}

MapContains(map, handle) == handle \in MapKeys(map)

\* HashMap::get
MapGet(map, handle) ==
    IF MapContains(map, handle)
    THEN (CHOOSE i \in 1 .. Len(map) : map[i].handle = handle)
    ELSE 0

MapValue(map, handle) == map[MapGet(map, handle)].resource.value

\* all orders in which the entries of a set can be iterated
Orderings(S) ==
    {s \in [1 .. Cardinality(S) -> S] : \A i, j \in 1 .. Cardinality(S) : s[i] = s[j] => i = j}

SeqRange(s) == {s[i] : i \in 1 .. Len(s)}

\* HashMap::insert: the entry replaces one with the same key; the iteration
\* order of the table after an insert is unspecified (hash seed, rehash on growth)
MapInsert(map, handle, resource) ==
    Orderings({e \in SeqRange(map) : e.handle # handle}
              \cup {[handle |-> handle, resource |-> resource]})

\* find_map comparing with != instead of ==
FindMap_ne(map, resource) ==
    LET hits == {i \in 1 .. Len(map) : map[i].resource.value # resource}
    IN  IF hits = {} THEN NoHandle
        ELSE map[CHOOSE i \in hits : \A j \in hits : i <= j].handle

\* iter().find_map(|(handle, r)| (r.value == resource).then_some(handle))
FindMap(map, resource) ==
    LET hits == {i \in 1 .. Len(map) : map[i].resource.value = resource}
    IN  IF hits = {} THEN NoHandle
        ELSE map[CHOOSE i \in hits : \A j \in hits : i <= j].handle

(***************************************************************************)
(* ResourceMap<H, R>                                                       *)
(***************************************************************************)
ResourceMap_default ==
    [next_handle |-> 0, map |-> <<>>, wakers |-> [h \in {} |-> <<>>]]

\* wakers.entry(handle).or_default().push_back(notifier)
PushWaker(wakers, handle, notifier) ==
    [h \in (DOMAIN wakers) \cup {handle} |->
        IF h = handle
        THEN (IF handle \in DOMAIN wakers THEN wakers[handle] ELSE <<>>) \o <<notifier>>
        ELSE wakers[h]]

\* wakers.remove(&handle)
RemoveWakers(wakers, handle) ==
    [h \in (DOMAIN wakers) \ {handle} |-> wakers[h]]

\* the wakers woken from the back of the queue
RECURSIVE Drain_rev(_)
Drain_rev(q) == IF q = <<>> THEN <<>> ELSE Drain_rev(Tail(q)) \o <<Head(q)>>

\* for waker in wakers.drain(..) { waker.wake() }: the wake() calls, in order
RECURSIVE Drain(_)
Drain(q) == IF q = <<>> THEN <<>> ELSE <<Head(q)>> \o Drain(Tail(q))

\* the handle the next bind issues: self.next_handle.into()
NextHandle(rm) == rm.next_handle

\* bind without `self.next_handle += 1`
bind_no_increment(rm, resource) ==
    LET handle == NextHandle(rm)
        notify == IF handle \in DOMAIN rm.wakers THEN Drain(rm.wakers[handle]) ELSE <<>>
    IN  {[rm |-> [next_handle |-> rm.next_handle,
                  map |-> m,
                  wakers |-> RemoveWakers(rm.wakers, handle)],
          handle |-> handle,
          notify |-> notify] : m \in MapInsert(rm.map, handle, Resource_new(resource))}

\* bind taking the handle after `self.next_handle += 1`
bind_post_increment(rm, resource) ==
    LET handle == rm.next_handle + 1
        notify == IF handle \in DOMAIN rm.wakers THEN Drain(rm.wakers[handle]) ELSE <<>>
    IN  {[rm |-> [next_handle |-> rm.next_handle + 1,
                  map |-> m,
                  wakers |-> RemoveWakers(rm.wakers, handle)],
          handle |-> handle,
          notify |-> notify] : m \in MapInsert(rm.map, handle, Resource_new(resource))}

\* bind waking the waiters of the handle after the one it issues
bind_wake_next(rm, resource) ==
    LET handle == NextHandle(rm)
        next == rm.next_handle + 1
        notify == IF next \in DOMAIN rm.wakers THEN Drain(rm.wakers[next]) ELSE <<>>
    IN  {[rm |-> [next_handle |-> rm.next_handle + 1,
                  map |-> m,
                  wakers |-> RemoveWakers(rm.wakers, next)],
          handle |-> handle,
          notify |-> notify] : m \in MapInsert(rm.map, handle, Resource_new(resource))}

\* bind: the outcomes, one per iteration order the insert may leave
bind(rm, resource) ==
    LET handle == NextHandle(rm)
        notify == IF handle \in DOMAIN rm.wakers THEN Drain(rm.wakers[handle]) ELSE <<>>
    IN  {[rm |-> [next_handle |-> rm.next_handle + 1,
                  map |-> m,
                  wakers |-> RemoveWakers(rm.wakers, handle)],
          handle |-> handle,
          notify |-> notify] : m \in MapInsert(rm.map, handle, Resource_new(resource))}

register_waker(rm, handle, notifier) ==
    [rm EXCEPT !.wakers = PushWaker(rm.wakers, handle, notifier)]

\* bind_if_new without the search for an equal value
bind_if_new_unchecked(rm, resource) ==
    {[rm |-> o.rm, handle |-> o.handle, created |-> TRUE, notify |-> o.notify] :
        o \in bind(rm, resource)}

\* bind_if_new using up a handle when it finds an equal value
bind_if_new_consumes_handle(rm, resource) ==
    LET found == FindMap(rm.map, resource)
    IN  IF found # NoHandle
        THEN {[rm |-> [rm EXCEPT !.next_handle = @ + 1],
               handle |-> found, created |-> FALSE, notify |-> <<>>]}
        ELSE {[rm |-> o.rm, handle |-> o.handle, created |-> TRUE, notify |-> o.notify] :
                o \in bind(rm, resource)}

bind_if_new(rm, resource) ==
    LET found == FindMap(rm.map, resource)
    IN  IF found # NoHandle
        THEN {[rm |-> rm, handle |-> found, created |-> FALSE, notify |-> <<>>]}
        ELSE {[rm |-> o.rm, handle |-> o.handle, created |-> TRUE, notify |-> o.notify] :
                o \in bind(rm, resource)}

MissingResource(handle) == [error |-> "MissingResource", handle |-> handle]

\* try_get reporting the next handle instead of the one asked for
try_get_next_handle(rm, handle) ==
    IF MapContains(rm.map, handle)
    THEN [ok |-> TRUE, value |-> MapValue(rm.map, handle), err |-> MissingResource(NoHandle)]
    ELSE [ok |-> FALSE, value |-> NoValue, err |-> MissingResource(rm.next_handle)]

try_get(rm, handle) ==
    IF MapContains(rm.map, handle)
    THEN [ok |-> TRUE, value |-> MapValue(rm.map, handle), err |-> MissingResource(NoHandle)]
    ELSE [ok |-> FALSE, value |-> NoValue, err |-> MissingResource(handle)]

get(rm, handle) ==
    IF MapContains(rm.map, handle) THEN MapValue(rm.map, handle) ELSE NoValue

\* get_eventually returning Pending without queueing the waker
get_eventually_no_waker(rm, handle, waker) ==
    IF MapContains(rm.map, handle)
    THEN [rm |-> rm, ready |-> TRUE, value |-> MapValue(rm.map, handle)]
    ELSE [rm |-> rm, ready |-> FALSE, value |-> NoValue]

\* the closure polled by get_eventually
get_eventually(rm, handle, waker) ==
    IF MapContains(rm.map, handle)
    THEN [rm |-> rm, ready |-> TRUE, value |-> MapValue(rm.map, handle)]
    ELSE [rm |-> [rm EXCEPT !.wakers = PushWaker(rm.wakers, handle, waker)],
          ready |-> FALSE, value |-> NoValue]

poll_get_eventually(rm, handle, waker) ==
    IF MapContains(rm.map, handle)
    THEN [rm |-> rm, ready |-> TRUE, value |-> MapValue(rm.map, handle)]
    ELSE [rm |-> [rm EXCEPT !.wakers = PushWaker(rm.wakers, handle, waker)],
          ready |-> FALSE, value |-> NoValue]

(***************************************************************************)
(* ResourceMaps                                                            *)
(***************************************************************************)
ResourceMaps_default == [k \in Kinds |-> ResourceMap_default]

\* register_waker with the Capability arm registering in static_tokens and the
\* Intersection arm registering in capabilities
ResourceMaps_register_waker_misrouted(maps, type, h, waker) ==
    CASE type = "AreaOfInterest" ->
            [panic |-> FALSE,
             maps |-> [maps EXCEPT !["areas_of_interest"] = register_waker(@, h, waker)]]
      [] type = "Capability" ->
            [panic |-> FALSE,
             maps |-> [maps EXCEPT !["static_tokens"] = register_waker(@, h, waker)]]
      [] type = "StaticToken" ->
            [panic |-> FALSE,
             maps |-> [maps EXCEPT !["static_tokens"] = register_waker(@, h, waker)]]
      [] type = "Intersection" ->
            [panic |-> FALSE,
             maps |-> [maps EXCEPT !["capabilities"] = register_waker(@, h, waker)]]

\* match handle { ... }: the arm taken for a tagged ResourceHandle
ResourceMaps_register_waker(maps, type, h, waker) ==
    CASE type = "AreaOfInterest" ->
            [panic |-> FALSE,
             maps |-> [maps EXCEPT !["areas_of_interest"] = register_waker(@, h, waker)]]
      [] type = "Capability" ->
            [panic |-> FALSE,
             maps |-> [maps EXCEPT !["capabilities"] = register_waker(@, h, waker)]]
      [] type = "StaticToken" ->
            [panic |-> FALSE,
             maps |-> [maps EXCEPT !["static_tokens"] = register_waker(@, h, waker)]]
      [] type = "Intersection" ->
            [panic |-> TRUE, maps |-> maps]

\* selector(&self).try_get(&handle).cloned()
ResourceMaps_get(maps, selector, handle) == try_get(maps[selector], handle)

ResourceMaps_poll_get_eventually(maps, selector, handle, waker) ==
    LET r == poll_get_eventually(maps[selector], handle, waker)
    IN  [maps |-> [maps EXCEPT ![selector] = r.rm], ready |-> r.ready, value |-> r.value]

(***************************************************************************)
(* Resources: one ResourceMaps per bind scope.                             *)
(***************************************************************************)
Resources_default == [s \in Scopes |-> ResourceMaps_default]

\* one ResourceMaps shared by both scopes
Table_shared(s, k) == resources["ours"][k]

\* Resources::scope
Table(s, k) == resources[s][k]

Bound(s, k, h) == MapContains(Table(s, k).map, h)

RECURSIVE SumBinds(_)
SumBinds(S) ==
    IF S = {} THEN 0
    ELSE LET x == CHOOSE x \in S : TRUE
         IN  resources[x[1]][x[2]].next_handle + SumBinds(S \ {x})

TotalBinds == SumBinds(Scopes \X Kinds)

(***************************************************************************)
(* Tasks: the callers of the suspending lookups, and their wakers.         *)
(* A task is idle, pending (inside get_eventually / poll_get_eventually),  *)
(* parked (suspended after register_waker), ready (its lookup resolved) or *)
(* dropped (its future was abandoned).                                     *)
(***************************************************************************)
IdleTask ==
    [st |-> "idle", scope |-> "", kind |-> "", handle |-> NoHandle,
     value |-> NoValue, notified |-> FALSE]

Suspended(t) == tasks[t].st \in {"pending", "parked"}

WaitsOn(t, s, k, h) ==
    /\ tasks[t].scope = s
    /\ tasks[t].kind = k
    /\ tasks[t].handle = h

\* Waker::wake on each waker of q: a suspended task is scheduled to be polled again
Wake(tk, q) ==
    [t \in Tasks |->
        IF t \in SeqRange(q) /\ tk[t].st \in {"pending", "parked"}
        THEN [tk[t] EXCEPT !.notified = TRUE]
        ELSE tk[t]]

\* the state of task t after its lookup of (s, k, h) was polled with result r
Polled(t, s, k, h, r) ==
    [tasks EXCEPT ![t] =
        [st |-> IF r.ready THEN "ready" ELSE "pending",
         scope |-> s, kind |-> k, handle |-> h,
         value |-> r.value, notified |-> FALSE]]

Put(f, key, val) == [x \in (DOMAIN f) \cup {key} |-> IF x = key THEN val ELSE f[x]]

At(f, key) == IF key \in DOMAIN f THEN f[key] ELSE <<>>

\* a call and what it returned: arg is the handle passed, handle the handle
\* returned (or carried by the error), value the value passed or returned
Ret(op, s, k, arg, h, v, flag) ==
    [op |-> op, scope |-> s, kind |-> k, arg |-> arg, handle |-> h, value |-> v,
     flag |-> flag]

Empty == [h \in {} |-> <<>>]

\* the table a tagged ResourceHandle belongs to
KindOf(type) ==
    CASE type = "AreaOfInterest" -> "areas_of_interest"
      [] type = "Capability" -> "capabilities"
      [] type = "StaticToken" -> "static_tokens"
      [] OTHER -> "none"

(***************************************************************************)
(* The handshake of a session: the initial transmission, then the reveal   *)
(* of the nonces.                                                          *)
(***************************************************************************)
Roles == {"Alfie", "Betty"}

\* the nonces a peer may choose
AccessChallenges == {0, 1, 2}
NoNonce == -1

\* the hash of a nonce, as sent in the commitment
ChallengeHash_of(nonce) == (5 * nonce + 3) % 7

\* the commitments a peer may send: the hash of a nonce, or of none
ChallengeHashes == {ChallengeHash_of(n) : n \in AccessChallenges} \cup {0}
NoCommitment == -1

MaxPayloadSizes == {1024}

HandshakeStates ==
    {"Uninitialized", "NonceSent", "CommitmentReceived", "Established", "Aborted"}

Session_new ==
    [state |-> "Uninitialized", role |-> "none",
     our_nonce |-> NoNonce, received_commitment |-> NoCommitment,
     their_max_payload_size |-> 0, revealed |-> NoNonce]

\* the data of the initial transmission held by a session
InitialTransmission(ss) ==
    [our_nonce |-> ss.our_nonce,
     received_commitment |-> ss.received_commitment,
     their_max_payload_size |-> ss.their_max_payload_size]

\* a reveal accepted without comparing it with the commitment
VerifyReveal_any(init, nonce) == nonce \in AccessChallenges

\* the revealed nonce hashes to the commitment received before
VerifyReveal(init, nonce) == ChallengeHash_of(nonce) = init.received_commitment

\* binds accepted as soon as the commitment has been received
MayBind_unverified(ss) == ss.state \in {"CommitmentReceived", "Established"}

\* the registry may be driven by bind messages
MayBind(ss) == ss.state = "Established"

(***************************************************************************)
(* The authenticator consulted before a request is honoured                *)
(* (iroh-base/src/auth.rs).                                                *)
(***************************************************************************)
\* Option<T>: None, or Some(x)
None == <<>>
Some(x) == <<x>>

\* Result<T>::Ok
Ok(x) == [ok |-> TRUE, value |-> x]

AcceptOutcomes == {"Accept", "Reject"}

RequestDatas ==
    {[type |-> ty, arg |-> a] : ty \in {"Gossip", "Bytes", "Sync"}, a \in {"x", "y"}}

Requests == {[id |-> i, data |-> d] : i \in {0, 1, 2}, d \in RequestDatas}

\* secret 0 is the sentinel of a token without a secret
Tokens == {[id |-> i, secret |-> sec] : i \in {1, 2}, sec \in {0, 9}}

OptionTokens == {None} \cup {Some(tok) : tok \in Tokens}

NoAuthenticator_request(request) == Ok(None)

\* respond rejecting a request that carries no token
NoAuthenticator_respond_needs_token(request, token) ==
    IF token = None THEN Ok("Reject") ELSE Ok("Accept")

NoAuthenticator_respond(request, token) == Ok("Accept")

NoCall == [op |-> "none"]

(***************************************************************************)
(* The progress state of a blob transfer (iroh-bytes/src/get/progress.rs). *)
(***************************************************************************)
ProgressIds == {0, 1}
\* child ids as carried by the events: 0 is the root
ChildIds == {0, 1, 2}
Hashes == {"h0", "h1"}
RootHash == "h0"
Sizes == {8}
Offsets == {4, 8}
RangeSpecs == {"all"}
ChildCounts == {2}

\* ProgressState
ProgressPending == [tag |-> "Pending", offset |-> 0]
Progressing(offset) == [tag |-> "Progressing", offset |-> offset]
ProgressDone == [tag |-> "Done", offset |-> 0]

\* BaoBlobSize
Verified(size) == [tag |-> "Verified", size |-> size]
Unverified(size) == [tag |-> "Unverified", size |-> size]
BaoBlobSizes == {Verified(n) : n \in Sizes} \cup {Unverified(n) : n \in Sizes}

\* BlobId
BlobId_Root == [tag |-> "Root", id |-> 0]
BlobId_Child(id) == [tag |-> "Child", id |-> id]

BlobId_from_child_id(id) == IF id = 0 THEN BlobId_Root ELSE BlobId_Child(id)

BlobState_new(hash) ==
    [hash |-> hash, size |-> None, local_ranges |-> None, child_count |-> None,
     progress |-> ProgressPending]

NoBlobs == [id \in {} |-> BlobState_new(RootHash)]
NoProgressIds == [id \in {} |-> BlobId_Root]

TransferState_new(root_hash) ==
    [root |-> BlobState_new(root_hash), connected |-> FALSE, children |-> NoBlobs,
     current |-> None, progress_ids |-> NoProgressIds]

get_blob(ts, blob_id) ==
    IF blob_id.tag = "Root" THEN Some(ts.root)
    ELSE IF blob_id.id \in DOMAIN ts.children THEN Some(ts.children[blob_id.id])
    ELSE None

get_current(ts) ==
    IF ts.current = None THEN None ELSE get_blob(ts, ts.current[1])

\* the state after get_or_insert_blob: a child that is absent is inserted
get_or_insert_blob(ts, blob_id, hash) ==
    IF blob_id.tag = "Root" \/ blob_id.id \in DOMAIN ts.children
    THEN ts
    ELSE [ts EXCEPT !.children = Put(@, blob_id.id, BlobState_new(hash))]

get_blob_mut(ts, blob_id) == get_blob(ts, blob_id)

\* the write through the &mut BlobState of blob_id
SetBlob(ts, blob_id, blob) ==
    IF blob_id.tag = "Root"
    THEN [ts EXCEPT !.root = blob]
    ELSE [ts EXCEPT !.children = Put(@, blob_id.id, blob)]

get_by_progress_id(ts, progress_id) ==
    IF progress_id \in DOMAIN ts.progress_ids
    THEN get_blob_mut(ts, ts.progress_ids[progress_id])
    ELSE None

\* HashMap::remove
Remove(f, key) == [x \in (DOMAIN f) \ {key} |-> f[x]]

\* the DownloadProgress events
FoundLocalEvents ==
    {[type |-> "FoundLocal", child |-> c, hash |-> h, size |-> sz, valid_ranges |-> r] :
        c \in ChildIds, h \in Hashes, sz \in BaoBlobSizes, r \in RangeSpecs}
FoundEvents ==
    {[type |-> "Found", id |-> i, child |-> c, hash |-> h, size |-> sz] :
        i \in ProgressIds, c \in ChildIds, h \in Hashes, sz \in Sizes}
FoundHashSeqEvents ==
    {[type |-> "FoundHashSeq", hash |-> h, children |-> n] : h \in Hashes, n \in ChildCounts}
ProgressEvents ==
    {[type |-> "Progress", id |-> i, offset |-> o] : i \in ProgressIds, o \in Offsets}
DoneEvents == {[type |-> "Done", id |-> i] : i \in ProgressIds}
\* the events on_progress ignores
OtherEvents == {[type |-> "AllDone"]}
NoEvent == [type |-> "none"]

on_progress_FoundLocal(ts, ev) ==
    LET blob_id == BlobId_from_child_id(ev.child)
        ts1 == get_or_insert_blob(ts, blob_id, ev.hash)
        blob == get_blob(ts1, blob_id)[1]
    IN  SetBlob(ts1, blob_id,
                [blob EXCEPT !.size = Some(ev.size), !.local_ranges = Some(ev.valid_ranges)])

on_progress_Connected(ts) == [ts EXCEPT !.connected = TRUE]

on_progress_Found(ts, ev) ==
    LET blob_id == BlobId_from_child_id(ev.child)
        ts1 == get_or_insert_blob(ts, blob_id, ev.hash)
        blob == get_blob(ts1, blob_id)[1]
        ts2 == SetBlob(ts1, blob_id,
                       [blob EXCEPT !.size = IF @ = None THEN Some(Verified(ev.size)) ELSE @,
                                    !.progress = Progressing(0)])
    IN  [ts2 EXCEPT !.progress_ids = Put(@, ev.id, blob_id), !.current = Some(blob_id)]

on_progress_FoundHashSeq(ts, ev) ==
    IF ev.hash = ts.root.hash
    THEN [ts EXCEPT !.root.child_count = Some(ev.children)]
    ELSE ts

on_progress_Progress(ts, ev) ==
    LET blob == get_by_progress_id(ts, ev.id)
    IN  IF blob # None
        THEN SetBlob(ts, ts.progress_ids[ev.id],
                     [blob[1] EXCEPT !.progress = Progressing(ev.offset)])
        ELSE ts

\* Done removing the finished child from children as well
on_progress_Done_drops_blob(ts, ev) ==
    LET blob == get_by_progress_id(ts, ev.id)
    IN  IF blob # None
        THEN [ts EXCEPT !.children = Remove(@, ts.progress_ids[ev.id].id),
                        !.progress_ids = Remove(@, ev.id)]
        ELSE ts

\* Done without progress_ids.remove(&id)
on_progress_Done_keeps_id(ts, ev) ==
    LET blob == get_by_progress_id(ts, ev.id)
    IN  IF blob # None
        THEN SetBlob(ts, ts.progress_ids[ev.id], [blob[1] EXCEPT !.progress = ProgressDone])
        ELSE ts

on_progress_Done(ts, ev) ==
    LET blob == get_by_progress_id(ts, ev.id)
    IN  IF blob # None
        THEN [SetBlob(ts, ts.progress_ids[ev.id], [blob[1] EXCEPT !.progress = ProgressDone])
                EXCEPT !.progress_ids = Remove(@, ev.id)]
        ELSE ts

on_progress(ts, ev) ==
    CASE ev.type = "FoundLocal" -> on_progress_FoundLocal(ts, ev)
      [] ev.type = "Connected" -> on_progress_Connected(ts)
      [] ev.type = "Found" -> on_progress_Found(ts, ev)
      [] ev.type = "FoundHashSeq" -> on_progress_FoundHashSeq(ts, ev)
      [] ev.type = "Progress" -> on_progress_Progress(ts, ev)
      [] ev.type = "Done" -> on_progress_Done(ts, ev)
      [] OTHER -> ts

(***************************************************************************)
(* The intersection of the areas of interest of the two peers.             *)
(***************************************************************************)
Namespaces == {"N1", "N2"}

\* an area: the half-open range [lo, hi)
Area(lo, hi) == [lo |-> lo, hi |-> hi]

\* a read capability for an area of a namespace
ReadCapability(namespace, area) == [namespace |-> namespace, area |-> area]

\* an area of interest, bound under the capability with handle authorisation
AreaOfInterest(area, authorisation) == [area |-> area, authorisation |-> authorisation]

\* the geometric intersection of two areas, None if they do not overlap
Area_intersection(a, b) ==
    LET lo == IF a.lo >= b.lo THEN a.lo ELSE b.lo
        hi == IF a.hi <= b.hi THEN a.hi ELSE b.hi
    IN  IF lo < hi THEN Some(Area(lo, hi)) ELSE None

Area_includes(outer, inner) == outer.lo <= inner.lo /\ inner.hi <= outer.hi

\* two capabilities taken to refer to one namespace without comparing them
SameNamespace_unchecked(c, d) == c.namespace \in Namespaces

SameNamespace(c, d) == c.namespace = d.namespace

\* the intersection lies within what the capabilities of both sides authorise
Authorised(oc, tc, area) ==
    Area_includes(oc.area, area) /\ Area_includes(tc.area, area)

AreaOfInterestIntersection(our_handle, their_handle, intersection, namespace) ==
    [our_handle |-> our_handle, their_handle |-> their_handle,
     intersection |-> intersection, namespace |-> namespace]

\* the intersection of our area of interest our_handle with their area of
\* interest their_handle, None when there is none to reconcile
IntersectionResolver(rs, our_handle, their_handle) ==
    LET ours == rs["ours"]
        theirs == rs["theirs"]
    IN  IF ~ MapContains(ours["areas_of_interest"].map, our_handle)
           \/ ~ MapContains(theirs["areas_of_interest"].map, their_handle)
        THEN None
        ELSE
        LET oa == MapValue(ours["areas_of_interest"].map, our_handle)
            ta == MapValue(theirs["areas_of_interest"].map, their_handle)
        IN  IF ~ MapContains(ours["capabilities"].map, oa.authorisation)
               \/ ~ MapContains(theirs["capabilities"].map, ta.authorisation)
            THEN None
            ELSE
            LET oc == MapValue(ours["capabilities"].map, oa.authorisation)
                tc == MapValue(theirs["capabilities"].map, ta.authorisation)
                x == Area_intersection(oa.area, ta.area)
            IN  IF ~ SameNamespace(oc, tc) \/ x = None THEN None
                ELSE IF ~ Authorised(oc, tc, x[1]) THEN None
                ELSE Some(AreaOfInterestIntersection(our_handle, their_handle,
                                                     x[1], oc.namespace))

\* the capabilities and areas of interest each peer declares
DeclaredCapabilities ==
    [ours |-> {ReadCapability("N1", Area(0, 4))},
     theirs |-> {ReadCapability("N1", Area(0, 4)), ReadCapability("N2", Area(0, 4)),
                 ReadCapability("N1", Area(2, 4))}]

DeclaredAreas ==
    [ours |-> {AreaOfInterest(Area(0, 2), 0), AreaOfInterest(Area(2, 4), 0)},
     theirs |-> {AreaOfInterest(Area(1, 4), 0)}]

Init ==
    /\ resources = Resources_default
    /\ tasks = [t \in Tasks |-> IdleTask]
    /\ ret = Ret("new", "", "", NoHandle, NoHandle, NoValue, "")
    /\ panicked = FALSE
    /\ issued = [s \in Scopes |-> [k \in Kinds |-> <<>>]]
    /\ creator = [s \in Scopes |-> [k \in Kinds |-> Empty]]
    /\ registered = [s \in Scopes |-> [k \in Kinds |-> Empty]]
    /\ woken = [s \in Scopes |-> [k \in Kinds |-> Empty]]
    /\ nregs = 0
    /\ session = Session_new
    /\ intersections = {}
    /\ auth = NoCall
    /\ transfer = TransferState_new(RootHash)
    /\ event = NoEvent
    /\ nevents = 0

\* the effects shared by every call that created a binding
Created(s, k, o, by) ==
    /\ resources' = [resources EXCEPT ![s][k] = o.rm]
    /\ tasks' = Wake(tasks, o.notify)
    /\ issued' = [issued EXCEPT ![s][k] = Append(@, o.handle)]
    /\ creator' = [creator EXCEPT ![s][k] = Put(@, o.handle, by)]
    /\ woken' = [woken EXCEPT ![s][k] = Put(@, o.handle, At(@, o.handle) \o o.notify)]
    /\ UNCHANGED <<panicked, registered, nregs>>

Bind(s, k, v) ==
    /\ ~panicked
    /\ UNCHANGED <<sessionVars, outsideVars>>
    /\ TotalBinds < MaxBinds
    /\ \E o \in bind(Table(s, k), v) :
        /\ Created(s, k, o, "bind")
        /\ ret' = Ret("bind", s, k, NoHandle, o.handle, v, "created")

BindIfNew(s, k, v) ==
    /\ ~panicked
    /\ UNCHANGED <<sessionVars, outsideVars>>
    /\ FindMap(Table(s, k).map, v) # NoHandle \/ TotalBinds < MaxBinds
    /\ \E o \in bind_if_new(Table(s, k), v) :
        /\ IF o.created
           THEN Created(s, k, o, "bind_if_new")
           ELSE /\ resources' = [resources EXCEPT ![s][k] = o.rm]
                /\ UNCHANGED <<tasks, panicked, issued, creator, registered, woken, nregs>>
        /\ ret' = Ret("bind_if_new", s, k, NoHandle, o.handle, v,
                       IF o.created THEN "created" ELSE "existing")

TryGet(s, k, h) ==
    /\ ~panicked
    /\ UNCHANGED <<sessionVars, outsideVars>>
    /\ LET r == try_get(Table(s, k), h)
       IN  ret' = Ret("try_get", s, k, h, r.err.handle, r.value,
                      IF r.ok THEN "ok" ELSE r.err.error)
    /\ UNCHANGED <<resources, tasks, panicked, issued, creator, registered, woken, nregs>>

Get(s, k, h) ==
    /\ ~panicked
    /\ UNCHANGED <<sessionVars, outsideVars>>
    /\ LET r == get(Table(s, k), h)
       IN  ret' = Ret("get", s, k, h, NoHandle, r, IF r = NoValue THEN "none" ELSE "some")
    /\ UNCHANGED <<resources, tasks, panicked, issued, creator, registered, woken, nregs>>

MapsGet(s, k, h) ==
    /\ ~panicked
    /\ UNCHANGED <<sessionVars, outsideVars>>
    /\ LET r == ResourceMaps_get(resources[s], k, h)
       IN  ret' = Ret("maps_get", s, k, h, r.err.handle, r.value,
                      IF r.ok THEN "ok" ELSE r.err.error)
    /\ UNCHANGED <<resources, tasks, panicked, issued, creator, registered, woken, nregs>>

\* task t passes its waker and the tagged handle (type, h) to
\* ResourceMaps::register_waker and suspends; unimplemented!() ends the flow
RegisterWaker(t, s, type, h) ==
    /\ ~panicked
    /\ UNCHANGED <<sessionVars, outsideVars>>
    /\ nregs < MaxRegs
    /\ tasks[t].st = "idle" \/ (tasks[t].st = "parked" /\ WaitsOn(t, s, type, h))
    /\ LET r == ResourceMaps_register_waker(resources[s], type, h, t)
       IN  IF r.panic
           THEN /\ panicked' = TRUE
                /\ ret' = Ret("register_waker", s, type, h, NoHandle, NoValue, "panic")
                /\ UNCHANGED <<resources, tasks, issued, creator, registered, woken, nregs>>
           ELSE /\ resources' = [resources EXCEPT ![s] = r.maps]
                /\ tasks' = [tasks EXCEPT ![t] =
                                [st |-> "parked", scope |-> s, kind |-> type, handle |-> h,
                                 value |-> NoValue, notified |-> FALSE]]
                /\ registered' =
                       IF KindOf(type) \notin Kinds \/ Bound(s, KindOf(type), h)
                       THEN registered
                       ELSE [registered EXCEPT ![s][KindOf(type)] = Put(@, h, At(@, h) \o <<t>>)]
                /\ nregs' = nregs + 1
                /\ UNCHANGED <<ret, panicked, issued, creator, woken>>

\* the effects shared by the two suspending lookups
Lookup(t, s, k, h, r, rs) ==
    /\ resources' = rs
    /\ tasks' = Polled(t, s, k, h, r)
    /\ registered' =
           IF Bound(s, k, h) THEN registered
           ELSE [registered EXCEPT ![s][k] = Put(@, h, At(@, h) \o <<t>>)]
    /\ nregs' = IF Bound(s, k, h) THEN nregs ELSE nregs + 1
    /\ UNCHANGED <<ret, panicked, issued, creator, woken>>

\* task t polls the future of ResourceMap::get_eventually(h): a first poll, or
\* a later one (after a wake-up, or spurious)
GetEventually(t, s, k, h) ==
    /\ ~panicked
    /\ UNCHANGED <<sessionVars, outsideVars>>
    /\ tasks[t].st = "idle" \/ (tasks[t].st = "pending" /\ WaitsOn(t, s, k, h))
    /\ Bound(s, k, h) \/ nregs < MaxRegs
    /\ LET r == get_eventually(Table(s, k), h, t)
       IN  Lookup(t, s, k, h, r, [resources EXCEPT ![s][k] = r.rm])

\* task t calls ResourceMaps::poll_get_eventually(selector, h, cx): a first
\* call, or a later one
PollGetEventually(t, s, k, h) ==
    /\ ~panicked
    /\ UNCHANGED <<sessionVars, outsideVars>>
    /\ tasks[t].st = "idle" \/ (tasks[t].st = "pending" /\ WaitsOn(t, s, k, h))
    /\ Bound(s, k, h) \/ nregs < MaxRegs
    /\ LET r == ResourceMaps_poll_get_eventually(resources[s], k, h, t)
       IN  Lookup(t, s, k, h, r, [resources EXCEPT ![s] = r.maps])

\* the calling flow of a suspended lookup is abandoned: its future is dropped.
\* Neither future has a Drop that touches the table.
Cancel(t) ==
    /\ ~panicked
    /\ UNCHANGED <<sessionVars, outsideVars>>
    /\ Suspended(t)
    /\ tasks' = [tasks EXCEPT ![t] = [IdleTask EXCEPT !.st = "dropped"]]
    /\ UNCHANGED <<resources, ret, panicked, issued, creator, registered, woken, nregs>>

\* the session is created with its role; it chooses its nonce and sends the
\* commitment to it
SessionStart(role, nonce) ==
    /\ session.state = "Uninitialized"
    /\ session' = [session EXCEPT !.state = "NonceSent", !.role = role, !.our_nonce = nonce]
    /\ UNCHANGED <<registryVars, intersections, outsideVars>>

\* the commitment and the maximum payload size of the peer arrive
RecvCommitment(commitment, size) ==
    /\ session.state = "NonceSent"
    /\ session' = [session EXCEPT !.state = "CommitmentReceived",
                                  !.received_commitment = commitment,
                                  !.their_max_payload_size = size]
    /\ UNCHANGED <<registryVars, intersections, outsideVars>>

\* the peer reveals its nonce: the session is established if the nonce hashes
\* to the commitment received, and is torn down otherwise
RecvReveal(nonce) ==
    /\ session.state = "CommitmentReceived"
    /\ session' = [session EXCEPT
                      !.state = IF VerifyReveal(InitialTransmission(session), nonce)
                                THEN "Established" ELSE "Aborted",
                      !.revealed = nonce]
    /\ UNCHANGED <<registryVars, intersections, outsideVars>>

\* a bind message of the peer arrives and is bound in their scope
RecvBind(k, v) ==
    /\ MayBind(session)
    /\ Bind("theirs", k, v)

\* an interest of the SessionInit is bound in our scope and announced
SendBind(k, v) ==
    /\ MayBind(session)
    /\ Bind("ours", k, v)

\* an outgoing request asks the authenticator for a token
Request(request) ==
    /\ auth' = [op |-> "request", request |-> request, token |-> None,
                result |-> NoAuthenticator_request(request)]
    /\ UNCHANGED <<registryVars, sessionVars, transfer, event, nevents>>

\* an incoming request, with the token it carries, is put to the authenticator
Respond(request, token) ==
    /\ auth' = [op |-> "respond", request |-> request, token |-> token,
                result |-> NoAuthenticator_respond(request, token)]
    /\ UNCHANGED <<registryVars, sessionVars, transfer, event, nevents>>

\* a DownloadProgress event of the transfer is applied to its state
OnProgress(ev) ==
    /\ nevents < MaxEvents
    /\ transfer' = on_progress(transfer, ev)
    /\ event' = ev
    /\ nevents' = nevents + 1
    /\ UNCHANGED <<registryVars, sessionVars, auth>>

\* a capability or an area of interest declared by a peer is bound in its scope
Declare(s, k, v) ==
    /\ ~panicked
    /\ UNCHANGED <<sessionVars, outsideVars>>
    /\ TotalBinds < MaxBinds + 3
    /\ Table(s, k).next_handle < MaxBinds
    /\ \E o \in bind(Table(s, k), v) :
        /\ Created(s, k, o, "bind")
        /\ ret' = Ret("bind", s, k, NoHandle, o.handle, v, "created")

\* the resolver is run for one of our areas of interest and one of theirs; an
\* intersection it finds is handed to the reconciler
Intersect(our_handle, their_handle) ==
    /\ ~panicked
    /\ LET r == IntersectionResolver(resources, our_handle, their_handle)
       IN  /\ intersections' = IF r = None THEN intersections ELSE intersections \cup {r[1]}
           /\ ret' = Ret("intersect", "", "areas_of_interest", our_handle, their_handle,
                         NoValue, IF r = None THEN "none" ELSE "some")
    /\ UNCHANGED <<resources, tasks, panicked, issued, creator, registered, woken, nregs>>
    /\ UNCHANGED <<session, outsideVars>>

(***************************************************************************)
(* Specifications                                                          *)
(***************************************************************************)
\* one table: the capabilities bound by ourselves
OneScope == {"ours"}
OneKind == {"capabilities"}

\* the non-suspending calls on one table
Next ==
    \/ \E s \in OneScope, k \in OneKind, v \in Values : Bind(s, k, v)
    \/ \E s \in OneScope, k \in OneKind, v \in Values : BindIfNew(s, k, v)
    \/ \E s \in OneScope, k \in OneKind, h \in Handles : TryGet(s, k, h)
    \/ \E s \in OneScope, k \in OneKind, h \in Handles : Get(s, k, h)
    \/ \E s \in OneScope, k \in OneKind, h \in Handles : MapsGet(s, k, h)

Spec == Init /\ [][Next]_vars

\* the handles the tasks wait for: the first one issued and the one after it
WaitHandles == {0, 1}

\* binds and suspending lookups on one table
NextWaiters ==
    \/ \E s \in OneScope, k \in OneKind, v \in Values : Bind(s, k, v)
    \/ \E t \in Tasks, s \in OneScope, k \in OneKind, h \in WaitHandles : GetEventually(t, s, k, h)
    \/ \E t \in Tasks, s \in OneScope, k \in OneKind, h \in WaitHandles : PollGetEventually(t, s, k, h)
    \/ \E t \in Tasks : Cancel(t)

SpecWaiters == Init /\ [][NextWaiters]_vars

\* binds and waker registrations dispatched over the tables of every kind
NextMaps ==
    \/ \E s \in OneScope, k \in Kinds : Bind(s, k, "a")
    \/ \E t \in Tasks, s \in OneScope, ty \in HandleTypes, h \in WaitHandles : RegisterWaker(t, s, ty, h)

SpecMaps == Init /\ [][NextMaps]_vars

\* the values each peer binds
ScopeValues == [ours |-> {"a"}, theirs |-> {"b"}]

\* binds and lookups in the tables of both scopes
NextScopes ==
    \/ \E s \in Scopes, k \in OneKind : \E v \in ScopeValues[s] : Bind(s, k, v)
    \/ \E s \in Scopes, k \in OneKind : \E v \in ScopeValues[s] : BindIfNew(s, k, v)
    \/ \E s \in Scopes, k \in OneKind, h \in Handles : MapsGet(s, k, h)
    \/ \E s \in Scopes, k \in OneKind, h \in Handles : Get(s, k, h)

SpecScopes == Init /\ [][NextScopes]_vars

\* the handshake, then the binds of both peers
NextSession ==
    \/ \E role \in Roles, nonce \in AccessChallenges : SessionStart(role, nonce)
    \/ \E c \in ChallengeHashes, size \in MaxPayloadSizes : RecvCommitment(c, size)
    \/ \E nonce \in AccessChallenges : RecvReveal(nonce)
    \/ \E k \in Kinds, v \in Values : RecvBind(k, v)
    \/ \E k \in Kinds, v \in Values : SendBind(k, v)

SpecSession == Init /\ [][NextSession]_vars

\* the calls made to the authenticator
NextAuth ==
    \/ \E request \in Requests : Request(request)
    \/ \E request \in Requests, token \in OptionTokens : Respond(request, token)

SpecAuth == Init /\ [][NextAuth]_vars

\* the events of one transfer
NextTransfer ==
    \/ \E ev \in FoundLocalEvents : OnProgress(ev)
    \/ OnProgress([type |-> "Connected"])
    \/ \E ev \in FoundEvents : OnProgress(ev)
    \/ \E ev \in FoundHashSeqEvents : OnProgress(ev)
    \/ \E ev \in ProgressEvents : OnProgress(ev)
    \/ \E ev \in DoneEvents : OnProgress(ev)
    \/ \E ev \in OtherEvents : OnProgress(ev)

SpecTransfer == Init /\ [][NextTransfer]_vars

\* the declarations of both peers and the intersections resolved from them
NextIntersect ==
    \/ \E s \in Scopes : \E v \in DeclaredCapabilities[s] : Declare(s, "capabilities", v)
    \/ \E s \in Scopes : \E v \in DeclaredAreas[s] : Declare(s, "areas_of_interest", v)
    \/ \E our_handle, their_handle \in Handles : Intersect(our_handle, their_handle)

SpecIntersect == Init /\ [][NextIntersect]_vars

\* the tasks whose lookups run beside the non-suspending calls
LookupTasks == {"t1", "t2"}

\* every call of one table: binds, non-suspending and suspending lookups
NextLookups ==
    \/ \E s \in OneScope, k \in OneKind, v \in Values : Bind(s, k, v)
    \/ \E s \in OneScope, k \in OneKind, v \in Values : BindIfNew(s, k, v)
    \/ \E s \in OneScope, k \in OneKind, h \in WaitHandles : TryGet(s, k, h)
    \/ \E s \in OneScope, k \in OneKind, h \in WaitHandles : Get(s, k, h)
    \/ \E t \in LookupTasks, s \in OneScope, k \in OneKind, h \in WaitHandles : GetEventually(t, s, k, h)
    \/ \E t \in LookupTasks, s \in OneScope, k \in OneKind, h \in WaitHandles : PollGetEventually(t, s, k, h)

SpecLookups == Init /\ [][NextLookups]_vars

\* the caller of register_waker and the caller of get_eventually
ParkingTasks == {"t1"}
WaitingTasks == {"t2"}

\* every call that may touch the bindings of one table
NextBindings ==
    \/ \E s \in OneScope, k \in OneKind, v \in Values : Bind(s, k, v)
    \/ \E s \in OneScope, k \in OneKind, v \in Values : BindIfNew(s, k, v)
    \/ \E s \in OneScope, k \in OneKind, h \in WaitHandles : TryGet(s, k, h)
    \/ \E s \in OneScope, k \in OneKind, h \in WaitHandles : Get(s, k, h)
    \/ \E t \in ParkingTasks, s \in OneScope, h \in WaitHandles : RegisterWaker(t, s, "Capability", h)
    \/ \E t \in WaitingTasks, s \in OneScope, k \in OneKind, h \in WaitHandles : GetEventually(t, s, k, h)

SpecBindings == Init /\ [][NextBindings]_vars

(***************************************************************************)
(* Claims                                                                  *)
(***************************************************************************)
\* C1: in every table, the handles returned by the calls that created a
\* binding (bind, and bind_if_new when it binds) start at 0 and are strictly
\* increasing, so no handle is issued twice.
C1_HandlesStrictlyIncreasing ==
    \A s \in Scopes, k \in Kinds :
        LET q == issued[s][k]
        IN  /\ Len(q) > 0 => q[1] = 0
            /\ \A i, j \in 1 .. Len(q) : i < j => q[i] < q[j]

\* both kinds of creating call have issued a handle of the table
C1_Witness ==
    /\ Len(issued["ours"]["capabilities"]) >= 2
    /\ \E h, g \in DOMAIN creator["ours"]["capabilities"] :
        /\ creator["ours"]["capabilities"][h] = "bind"
        /\ creator["ours"]["capabilities"][g] = "bind_if_new"

\* the lookups of get_eventually / poll_get_eventually in the state of task t
Pending(t) == tasks[t].st = "pending"
Ready(t) == tasks[t].st = "ready"

Queue(s, k, h) == At(Table(s, k).wakers, h)

\* a lookup pending on an unbound handle has its waker queued and was not
\* woken; once the handle is bound the lookup has been woken by that bind; a
\* resolved lookup holds the value bound to its handle
C2_State ==
    \A t \in Tasks :
        LET s == tasks[t].scope
            k == tasks[t].kind
            h == tasks[t].handle
        IN  /\ Pending(t) /\ ~Bound(s, k, h) =>
                t \in SeqRange(Queue(s, k, h)) /\ ~tasks[t].notified
            /\ Pending(t) /\ Bound(s, k, h) => tasks[t].notified
            /\ Ready(t) => Bound(s, k, h) /\ tasks[t].value = MapValue(Table(s, k).map, h)

\* a first poll on a bound handle resolves at once and queues nothing, on an
\* unbound handle it queues the waker and stays pending; a pending lookup
\* resolves only once its handle is bound, to the bound value; a resolved
\* lookup never changes again
C2_Step ==
    \A t \in Tasks :
        LET s == tasks'[t].scope
            k == tasks'[t].kind
            h == tasks'[t].handle
        IN  /\ tasks[t].st = "idle" /\ tasks'[t].st # "idle" =>
                IF Bound(s, k, h)
                THEN /\ tasks'[t].st = "ready"
                     /\ tasks'[t].value = MapValue(Table(s, k).map, h)
                     /\ resources' = resources
                ELSE /\ tasks'[t].st = "pending"
                     /\ resources'[s][k].wakers =
                            Put(Table(s, k).wakers, h, Queue(s, k, h) \o <<t>>)
            /\ Pending(t) /\ tasks'[t].st = "ready" =>
                /\ Bound(s, k, h)
                /\ tasks'[t].value = MapValue(Table(s, k).map, h)
                /\ resources' = resources
            /\ Ready(t) => tasks'[t] = tasks[t]

\* C2: a get_eventually / poll_get_eventually lookup of h issued before the
\* bind that issues h stays pending with its waker queued, is woken by that
\* bind and resolves to the bound value v, once; issued after that bind it
\* resolves immediately to v and registers no waiter.
C2_GetEventually == [] C2_State /\ [][C2_Step]_vars

\* one lookup waited for handle 0 and was woken by its bind, another was issued
\* after the bind; both resolved to the same value
C2_Witness ==
    \E t, u \in Tasks :
        /\ Ready(t) /\ Ready(u)
        /\ WaitsOn(t, "ours", "capabilities", 0) /\ WaitsOn(u, "ours", "capabilities", 0)
        /\ t \in SeqRange(At(woken["ours"]["capabilities"], 0))
        /\ u \notin SeqRange(At(registered["ours"]["capabilities"], 0))
        /\ tasks[t].value = tasks[u].value

\* C4: the waiters registered on a handle while it was unbound are all woken
\* by the bind of that handle, in the order in which they registered, none
\* before it; the lookups that resolve on one handle all observe one value.
C4_WokenInFifoOrder ==
    \A s \in Scopes, k \in Kinds :
        /\ \A h \in Handles \cup WaitHandles :
            IF Bound(s, k, h)
            THEN /\ At(woken[s][k], h) = At(registered[s][k], h)
                 /\ Queue(s, k, h) = <<>>
            ELSE /\ At(woken[s][k], h) = <<>>
                 /\ Queue(s, k, h) = At(registered[s][k], h)
        /\ \A t, u \in Tasks :
            /\ Ready(t) /\ Ready(u)
            /\ WaitsOn(t, s, k, tasks[u].handle) /\ WaitsOn(u, s, k, tasks[t].handle)
            => tasks[t].value = tasks[u].value

\* three tasks registered on handle 0 in the order t2, t3, t1, were woken in
\* that order by its bind, and resolved to the bound value
C4_Witness ==
    /\ At(woken["ours"]["capabilities"], 0) = <<"t2", "t3", "t1">>
    /\ \A t \in Tasks : Ready(t) /\ tasks[t].value = "b"

\* C3: no handle is bound while a waiter registered for it is still queued
\* (such a waiter is never woken: the handle is bound once, and only the bind
\* of a handle drains its queue).
C3_NoStrandedWaiter ==
    \A s \in Scopes, k \in Kinds, h \in Handles \cup WaitHandles :
        Bound(s, k, h) => Queue(s, k, h) = <<>>

\* C5: the waiter queues hold entries only for callers that are still
\* suspended on that handle: abandoning a lookup removes its entry.
C5_NoStaleWaiter ==
    \A s \in Scopes, k \in Kinds, h \in Handles \cup WaitHandles :
        \A t \in SeqRange(Queue(s, k, h)) : Pending(t) /\ WaitsOn(t, s, k, h)

\* the handles of a table bound to value v
HandlesOf(rm, v) ==
    {rm.map[i].handle : i \in {j \in 1 .. Len(rm.map) : rm.map[j].resource.value = v}}

\* a step in which bind_if_new(v) returned
C6_Step ==
    ret'.op = "bind_if_new" =>
        LET s == ret'.scope
            k == ret'.kind
            v == ret'.value
            h == ret'.handle
            rm == Table(s, k)
            after == resources'[s][k]
        IN  /\ HandlesOf(rm, v) # {} =>
                /\ ret'.flag = "existing"
                /\ h \in HandlesOf(rm, v)
                /\ resources' = resources
            /\ HandlesOf(rm, v) = {} =>
                /\ ret'.flag = "created"
                /\ h = rm.next_handle
                /\ after.next_handle = rm.next_handle + 1
                /\ MapKeys(after.map) = MapKeys(rm.map) \cup {h}
                /\ HandlesOf(after, v) = {h}
            /\ (ret.op = "bind_if_new" /\ ret.scope = s /\ ret.kind = k /\ ret.value = v) =>
                /\ h = ret.handle
                /\ ret'.flag = "existing"

\* C6: bind_if_new(v) returns a handle already bound to an equal value, with
\* created = false and the table unchanged, whenever one is present, and
\* otherwise binds v to the next handle with created = true; called again with
\* an equal value it returns the same handle with created = false.
C6_BindIfNewIdempotent == [][C6_Step]_vars

\* a second bind_if_new returned the handle the first one created, while two
\* handles are bound
C6_Witness ==
    /\ ret.op = "bind_if_new" /\ ret.flag = "existing"
    /\ ret.handle \in DOMAIN creator[ret.scope][ret.kind]
    /\ creator[ret.scope][ret.kind][ret.handle] = "bind_if_new"
    /\ Len(Table(ret.scope, ret.kind).map) = 2

\* C7 as claimed: no two distinct handles of a table are bound to equal values.
C7_NoTwoHandlesForOneValue ==
    \A s \in Scopes, k \in Kinds, v \in Values :
        Cardinality(HandlesOf(Table(s, k), v)) <= 1

\* C7 as amended: bind_if_new never binds a value that is already bound: of
\* two distinct handles bound to equal values, the later one (the higher) was
\* created by bind, which does not compare values.
C7_DuplicatesOnlyByBind ==
    \A s \in Scopes, k \in Kinds, v \in Values :
        \A g, h \in HandlesOf(Table(s, k), v) :
            g < h => creator[s][k][h] = "bind"

\* bind bound one value twice, and bind_if_new of that value then bound nothing
C7_Witness ==
    /\ ret.op = "bind_if_new" /\ ret.flag = "existing"
    /\ Cardinality(HandlesOf(Table(ret.scope, ret.kind), ret.value)) = 2

\* a step in which try_get or ResourceMaps::get returned
C8_Step ==
    ret'.op \in {"try_get", "maps_get"} =>
        LET s == ret'.scope
            k == ret'.kind
            h == ret'.arg
        IN  /\ resources' = resources
            /\ tasks' = tasks
            /\ IF Bound(s, k, h)
               THEN /\ ret'.flag = "ok"
                    /\ ret'.value = MapValue(Table(s, k).map, h)
               ELSE /\ ret'.flag = "MissingResource"
                    /\ ret'.handle = h
                    /\ ret'.value = NoValue

\* C8: try_get and ResourceMaps::get on an unbound handle return
\* MissingResource carrying the handle asked for, on a bound handle the bound
\* value; they suspend no task and leave the tables unchanged.
C8_TryGetMissingResource == [][C8_Step]_vars

\* handle 1 was asked for through ResourceMaps::get while only handle 0 is bound
C8_Witness ==
    /\ ret.op = "maps_get" /\ ret.flag = "MissingResource"
    /\ ret.arg = 1 /\ ret.handle = 1
    /\ MapKeys(Table(ret.scope, ret.kind).map) = {0}

Parked(t) == tasks[t].st = "parked"

\* the tables of a scope other than that of kind k are the same before and after
OtherTablesUnchanged(s, k) ==
    \A j \in Kinds \ {k} : resources'[s][j] = resources[s][j]

\* a step in which ResourceMaps::register_waker was called: it registered the
\* waker of a task (the task parks, nregs counts it) or it panicked
C10_Step ==
    /\ nregs' = nregs + 1 =>
        \E t \in Tasks :
            LET s == tasks'[t].scope
                k == KindOf(tasks'[t].kind)
                h == tasks'[t].handle
            IN  /\ tasks'[t].st = "parked"
                /\ \A u \in Tasks \ {t} : tasks'[u] = tasks[u]
                /\ k \in Kinds
                /\ resources'[s][k] =
                       [Table(s, k) EXCEPT !.wakers = Put(@, h, Queue(s, k, h) \o <<t>>)]
                /\ OtherTablesUnchanged(s, k)
                /\ ~panicked'
    /\ (panicked' /\ ~panicked) =>
        /\ ret'.op = "register_waker" /\ ret'.kind = "Intersection"
        /\ resources' = resources
        /\ tasks' = tasks
    /\ panicked => UNCHANGED vars

\* no task ever waits on an Intersection handle, and only such a handle panics
C10_State ==
    /\ \A t \in Tasks : Parked(t) => tasks[t].kind \in HandleTypes \ {"Intersection"}
    /\ panicked => ret.kind = "Intersection"
    /\ \A s \in Scopes, k \in Kinds :
        \A h \in DOMAIN Table(s, k).wakers :
            \A t \in SeqRange(Table(s, k).wakers[h]) :
                Parked(t) /\ KindOf(tasks[t].kind) = k /\ tasks[t].handle = h

\* C10: ResourceMaps::register_waker appends the waiter to the table of the
\* kind in the handle's tag and leaves the other tables unchanged; for an
\* Intersection handle it panics and registers no waiter in any table.
C10_RegisterWakerDispatch == [] C10_State /\ [][C10_Step]_vars

\* waiters were registered in the tables of two kinds, and a call with an
\* Intersection handle then panicked
C10_Witness ==
    /\ panicked
    /\ Queue("ours", "static_tokens", 1) = <<"t1">>
    /\ Queue("ours", "areas_of_interest", 0) = <<"t2">>
    /\ Table("ours", "capabilities").wakers = Empty

OtherScope(s) == IF s = "ours" THEN "theirs" ELSE "ours"

\* the values bound in a table
ValuesIn(rm) == {rm.map[i].resource.value : i \in 1 .. Len(rm.map)}

\* every value bound in a table of a scope was bound by the peer of that scope;
\* the handles of each table are numbered from 0 whatever the other scope
\* holds; a lookup in a scope returns a value of that scope
C9_State ==
    /\ \A s \in Scopes, k \in Kinds :
        /\ ValuesIn(Table(s, k)) \subseteq ScopeValues[s]
        /\ MapKeys(Table(s, k).map) = 0 .. (Len(issued[s][k]) - 1)
        /\ \A i \in 1 .. Len(issued[s][k]) : issued[s][k][i] = i - 1
    /\ ret.op \in {"maps_get", "get"} /\ ret.value # NoValue =>
        ret.value \in ScopeValues[ret.scope]

\* a call that binds in one scope leaves the tables of the other scope unchanged
C9_Step ==
    ret'.flag = "created" =>
        resources'[OtherScope(ret'.scope)] = resources[OtherScope(ret'.scope)]

\* C9: the resources bound by ourselves and those bound by the other peer live
\* in separate tables per kind, each with its own handle numbering: a bind in
\* one scope never changes the other, and a handle looked up in one scope never
\* resolves to a value bound in the other.
C9_IndependentScopes == [] C9_State /\ [][C9_Step]_vars

\* handle 0 is bound in both scopes, to different values, and the lookup of
\* our handle 0 returned our value
C9_Witness ==
    /\ MapKeys(Table("ours", "capabilities").map) = {0}
    /\ MapKeys(Table("theirs", "capabilities").map) = {0}
    /\ ret.op = "maps_get" /\ ret.scope = "ours" /\ ret.arg = 0 /\ ret.value = "a"
    /\ MapValue(Table("theirs", "capabilities").map, 0) = "b"

\* a session is established only with a revealed nonce that hashes to the
\* commitment received in the initial transmission
C11_State ==
    session.state = "Established" =>
        /\ session.revealed \in AccessChallenges
        /\ ChallengeHash_of(session.revealed) = session.received_commitment

\* the reveal decides: a nonce that hashes to the commitment establishes the
\* session, any other aborts it; an aborted session takes no further step, and
\* a session is established by no step other than the reveal
C11_Step ==
    /\ (session.state = "CommitmentReceived" /\ session' # session) =>
        /\ session'.received_commitment = session.received_commitment
        /\ session'.state =
               IF ChallengeHash_of(session'.revealed) = session.received_commitment
               THEN "Established" ELSE "Aborted"
    /\ (session'.state = "Established" /\ session.state # "Established") =>
        session.state = "CommitmentReceived"
    /\ session.state = "Aborted" => UNCHANGED vars

\* C11: the handshake reaches Established only if the nonce revealed by the
\* peer hashes to the commitment received from that peer before; a reveal that
\* does not match aborts the session, which then never reaches Established.
C11_EstablishedOnlyIfVerified == [] C11_State /\ [][C11_Step]_vars

\* the peer committed to the hash of one nonce and revealed another: the
\* session is aborted with nothing bound
C11_Witness ==
    /\ session.state = "Aborted"
    /\ session.received_commitment = ChallengeHash_of(1)
    /\ session.revealed = 2
    /\ \A s \in Scopes, k \in Kinds : Table(s, k).map = <<>>

\* C12: whenever a table of the registry holds a binding, the handshake of the
\* session is Established: no bind message is applied before the reveal of the
\* peer was verified, nor after a reveal that failed.
C12_BoundOnlyWhenEstablished ==
    \A s \in Scopes, k \in Kinds :
        Table(s, k).map # <<>> => session.state = "Established"

\* two bind messages of the peer were applied in an established session
C12_Witness ==
    /\ session.state = "Established"
    /\ Len(Table("theirs", "areas_of_interest").map) = 1
    /\ Len(Table("theirs", "capabilities").map) = 1
    /\ ret.op = "bind" /\ ret.scope = "theirs"

\* the points of an area
Points(area) == area.lo .. (area.hi - 1)

\* every intersection produced refers to two bound areas of interest, bound
\* under bound capabilities of one namespace, and is the non-empty overlap of
\* the two areas, within what each capability authorises
C13_State ==
    \A x \in intersections :
        /\ Bound("ours", "areas_of_interest", x.our_handle)
        /\ Bound("theirs", "areas_of_interest", x.their_handle)
        /\ LET oa == MapValue(Table("ours", "areas_of_interest").map, x.our_handle)
               ta == MapValue(Table("theirs", "areas_of_interest").map, x.their_handle)
           IN  /\ Bound("ours", "capabilities", oa.authorisation)
               /\ Bound("theirs", "capabilities", ta.authorisation)
               /\ LET oc == MapValue(Table("ours", "capabilities").map, oa.authorisation)
                      tc == MapValue(Table("theirs", "capabilities").map, ta.authorisation)
                  IN  /\ oc.namespace = tc.namespace
                      /\ x.namespace = oc.namespace
                      /\ Points(x.intersection) = Points(oa.area) \cap Points(ta.area)
                      /\ Points(x.intersection) # {}
                      /\ Points(x.intersection) \subseteq Points(oc.area)
                      /\ Points(x.intersection) \subseteq Points(tc.area)

\* a run of the resolver changes no table and raises no error; without a
\* result it produces nothing, with one it produces the intersection of the
\* two handles it was run for; nothing else produces an intersection
C13_Step ==
    /\ ret'.op = "intersect" =>
        /\ resources' = resources
        /\ ~panicked'
        /\ ret'.flag = "none" => intersections' = intersections
        /\ ret'.flag = "some" =>
            \E x \in intersections' :
                /\ x.our_handle = ret'.arg
                /\ x.their_handle = ret'.handle
                /\ intersections' = intersections \cup {x}
    /\ intersections' # intersections => ret'.op = "intersect" /\ ret'.flag = "some"

\* C13: an AreaOfInterestIntersection is produced only when both area of
\* interest handles are bound, their capabilities are of one namespace and the
\* intersected area lies within what the capabilities authorise; otherwise the
\* resolver produces no result and no error.
C13_IntersectionOnlyIfAuthorised == [] C13_State /\ [][C13_Step]_vars

\* their area 0 is bound under a capability for [2, 4) of N1: our area [2, 4)
\* intersects it within what both capabilities authorise, while the overlap
\* [1, 2) with our area [0, 2) was resolved without a result
C13_Witness ==
    /\ \E x \in intersections :
        /\ x.intersection = Area(2, 4) /\ x.namespace = "N1" /\ x.their_handle = 0
        /\ ret.arg # x.our_handle
    /\ ret.op = "intersect" /\ ret.flag = "none" /\ ret.handle = 0
    /\ Bound("ours", "areas_of_interest", ret.arg)
    /\ MapValue(Table("ours", "areas_of_interest").map, ret.arg).area = Area(0, 2)
    /\ MapValue(Table("theirs", "capabilities").map, 0).area = Area(2, 4)

\* C14: NoAuthenticator::respond returns Ok(Accept) for every request, with or
\* without a token, and NoAuthenticator::request returns Ok(None) for every
\* request: it accepts everything, issues no token and never fails.
C14_NoAuthenticatorAccepts ==
    /\ auth.op = "respond" => auth.result.ok /\ auth.result.value = "Accept"
    /\ auth.op = "request" => auth.result.ok /\ auth.result.value = None

\* a Sync request that carries no token was put to respond
C14_Witness ==
    /\ auth.op = "respond"
    /\ auth.request.data.type = "Sync"
    /\ auth.token = None
    /\ auth.result = Ok("Accept")

\* C15: the waiters queued for a handle are a set: no task has two entries in
\* the queue of a handle, and the bind of a handle wakes no task twice.
C15_WaitersAreASet ==
    \A s \in Scopes, k \in Kinds, h \in Handles \cup WaitHandles :
        /\ \A i, j \in 1 .. Len(Queue(s, k, h)) :
            Queue(s, k, h)[i] = Queue(s, k, h)[j] => i = j
        /\ \A i, j \in 1 .. Len(At(woken[s][k], h)) :
            At(woken[s][k], h)[i] = At(woken[s][k], h)[j] => i = j

\* a lookup pending on handle h is woken only by the call that binds h, the
\* bind that issues h; it resolves only when polled with h bound; while h stays
\* unbound it stays pending on h, not woken; the non-suspending calls other
\* than the bind that issues h leave it as it is
C16_Step ==
    \A t \in Tasks :
        Pending(t) =>
            LET s == tasks[t].scope
                k == tasks[t].kind
                h == tasks[t].handle
            IN  /\ (tasks'[t].notified /\ ~tasks[t].notified) =>
                    /\ ~Bound(s, k, h)
                    /\ MapContains(resources'[s][k].map, h)
                    /\ Table(s, k).next_handle = h
                    /\ ret'.flag = "created" /\ ret'.handle = h
                /\ tasks'[t].st = "ready" => Bound(s, k, h)
                /\ ~MapContains(resources'[s][k].map, h) =>
                    /\ tasks'[t].st = "pending"
                    /\ tasks'[t].handle = h
                    /\ ~tasks'[t].notified
                /\ (ret' # ret /\ ~(ret'.flag = "created" /\ ret'.handle = h)) =>
                    tasks'[t] = tasks[t]

\* C16: a lookup suspended on handle h is woken and resolved only by the bind
\* that issues h: binds of other handles, bind_if_new calls that find the
\* value, get and try_get neither wake nor resolve it, and as long as h is
\* unbound it stays pending.
C16_WokenOnlyByItsBind == [][C16_Step]_vars

\* the bind of handle 0 woke the lookup of handle 0 and not the lookup of
\* handle 1, which a bind_if_new that found its value left pending as well
C16_Witness ==
    /\ Pending("t1") /\ WaitsOn("t1", "ours", "capabilities", 1) /\ ~tasks["t1"].notified
    /\ Pending("t2") /\ WaitsOn("t2", "ours", "capabilities", 0) /\ tasks["t2"].notified
    /\ ret.op = "bind_if_new" /\ ret.flag = "existing"
    /\ ~Bound("ours", "capabilities", 1)

\* a step in which bind_if_new returned the handle of an equal value
C17_Step ==
    (ret' # ret /\ ret'.op = "bind_if_new" /\ ret'.flag = "existing") =>
        /\ HandlesOf(Table(ret'.scope, ret'.kind), ret'.value) # {}
        /\ resources' = resources
        /\ tasks' = tasks
        /\ issued' = issued
        /\ woken' = woken

\* a bind that follows such a call issues the handle that was next before it
C17_NextBind ==
    (ret.op = "bind_if_new" /\ ret.flag = "existing" /\ ret'.flag = "created"
        /\ ret'.scope = ret.scope /\ ret'.kind = ret.kind) =>
        ret'.handle = Len(issued[ret.scope][ret.kind])

\* C17: a bind_if_new call that finds an equal value bound changes nothing:
\* it issues no handle (the next bind issues the handle it would have issued
\* before), adds no binding, and wakes and removes no waiter.
C17_BindIfNewExistingNoEffect == [][C17_Step /\ C17_NextBind]_vars

\* bind_if_new found its value under handle 0 while a lookup waits in the
\* queue of handle 1, the next to be issued
C17_Witness ==
    /\ ret.op = "bind_if_new" /\ ret.flag = "existing" /\ ret.handle = 0
    /\ Table("ours", "capabilities").next_handle = 1
    /\ Queue("ours", "capabilities", 1) # <<>>
    /\ \E t \in Tasks : Pending(t) /\ WaitsOn(t, "ours", "capabilities", 1)

\* the handles bound in a table are 0 .. next_handle - 1, each bound once
C18_State ==
    \A s \in Scopes, k \in Kinds :
        /\ MapKeys(Table(s, k).map) = 0 .. (Table(s, k).next_handle - 1)
        /\ Len(Table(s, k).map) = Table(s, k).next_handle

\* a bound handle stays bound to its value in every step; a get, a try_get
\* and a get_eventually of a bound handle return the value bound to it
C18_Step ==
    /\ \A s \in Scopes, k \in Kinds, h \in Handles :
        Bound(s, k, h) =>
            /\ MapContains(resources'[s][k].map, h)
            /\ MapValue(resources'[s][k].map, h) = MapValue(Table(s, k).map, h)
    /\ (ret' # ret /\ ret'.op \in {"get", "try_get"} /\ Bound(ret'.scope, ret'.kind, ret'.arg)) =>
        ret'.value = MapValue(Table(ret'.scope, ret'.kind).map, ret'.arg)
    /\ \A t \in Tasks :
        (tasks'[t].st = "ready" /\ tasks[t].st # "ready") =>
            /\ Bound(tasks'[t].scope, tasks'[t].kind, tasks'[t].handle)
            /\ tasks'[t].value =
                   MapValue(Table(tasks'[t].scope, tasks'[t].kind).map, tasks'[t].handle)

\* C18: bindings are permanent: the bound handles of a table are exactly
\* 0 .. next_handle - 1, and no call (bind, bind_if_new, get, try_get,
\* register_waker, get_eventually) removes or overwrites a binding, so every
\* later lookup of a bound handle returns the value bound first.
C18_BindingsPermanent == [] C18_State /\ [][C18_Step]_vars

\* handle 0 was bound by bind, handle 1 after it by bind_if_new; a waker was
\* registered, a get_eventually resolved, and a get of handle 0 then returned
\* the value bound to it
C18_Witness ==
    /\ Table("ours", "capabilities").next_handle = 2
    /\ creator["ours"]["capabilities"][0] = "bind"
    /\ creator["ours"]["capabilities"][1] = "bind_if_new"
    /\ Parked("t1")
    /\ Ready("t2") /\ tasks["t2"].handle = 0
    /\ ret.op = "get" /\ ret.arg = 0
    /\ ret.value = MapValue(Table("ours", "capabilities").map, 0)
    /\ tasks["t2"].value = ret.value

\* the blob ids a transfer state refers to
ReferredBlobs(ts) ==
    {ts.progress_ids[i] : i \in DOMAIN ts.progress_ids}
        \cup (IF ts.current = None THEN {} ELSE {ts.current[1]})

\* a blob id that names a blob of the state: the root, or a child present
Exists(ts, blob_id) ==
    \/ blob_id = BlobId_Root
    \/ blob_id.tag = "Child" /\ blob_id.id # 0 /\ blob_id.id \in DOMAIN ts.children

\* every blob id in progress_ids or in current names a blob of the state, and
\* get_current returns a blob whenever current is set
C19_State ==
    /\ \A blob_id \in ReferredBlobs(transfer) : Exists(transfer, blob_id)
    /\ transfer.current # None => get_current(transfer) # None
    /\ 0 \notin DOMAIN transfer.children

\* no event resets current to none, sets connected back to false or removes
\* a child
C19_Step ==
    /\ transfer.current # None => transfer'.current # None
    /\ transfer.connected => transfer'.connected
    /\ DOMAIN transfer.children \subseteq DOMAIN transfer'.children

\* C19: after any sequence of events applied by on_progress, every blob id in
\* progress_ids and the blob id in current refer to a blob that exists in the
\* state, so get_current returns a blob whenever current is set; current is
\* never reset to none and connected never returns to false.
C19_ReferencesExist == [] C19_State /\ [][C19_Step]_vars

\* two children were found under two progress ids and the first was done:
\* current is the second child, connected is set, and a progress id remains
C19_Witness ==
    /\ transfer.connected
    /\ transfer.current = Some(BlobId_Child(2))
    /\ DOMAIN transfer.children = {1, 2}
    /\ transfer.children[1].progress = ProgressDone
    /\ DOMAIN transfer.progress_ids = {1}
    /\ get_current(transfer) = Some(transfer.children[2])

\* the state of blob blob_id in a transfer state that holds it
BlobOf(ts, blob_id) == get_blob(ts, blob_id)[1]

\* a step in which on_progress applied the event ev
C20_Step ==
    nevents' = nevents + 1 =>
        LET ev == event'
        IN  /\ (ev.type = "Done" /\ ev.id \in DOMAIN transfer.progress_ids) =>
                LET blob_id == transfer.progress_ids[ev.id]
                IN  /\ BlobOf(transfer', blob_id) =
                           [BlobOf(transfer, blob_id) EXCEPT !.progress = ProgressDone]
                    /\ transfer'.progress_ids = Remove(transfer.progress_ids, ev.id)
                    /\ transfer'.current = transfer.current
                    /\ transfer'.connected = transfer.connected
                    /\ DOMAIN transfer'.children = DOMAIN transfer.children
                    /\ \A id \in DOMAIN transfer.children :
                        BlobId_Child(id) # blob_id =>
                            transfer'.children[id] = transfer.children[id]
                    /\ blob_id # BlobId_Root => transfer'.root = transfer.root
            /\ (ev.type \in {"Progress", "Done"} /\ ev.id \notin DOMAIN transfer.progress_ids) =>
                transfer' = transfer
            /\ (ev.type = "FoundHashSeq" /\ ev.hash # transfer.root.hash) =>
                transfer' = transfer

\* C20: Done{id} for a known progress id sets the blob of that id to Done and
\* retires the id from progress_ids, changing nothing else; a Progress or Done
\* event whose id is not in progress_ids, and a FoundHashSeq whose hash is not
\* the root hash, leave the whole TransferState unchanged.
C20_DoneRetiresId == [][C20_Step]_vars

\* child 1 was found under progress id 0 and done; a second Done{0} was then
\* applied, with id 0 retired
C20_Witness ==
    /\ nevents = 3
    /\ event = [type |-> "Done", id |-> 0]
    /\ transfer.progress_ids = NoProgressIds
    /\ DOMAIN transfer.children = {1}
    /\ transfer.children[1].progress = ProgressDone
    /\ transfer.current = Some(BlobId_Child(1))

=============================================================================
